---- MODULE Spec2Model ----
(***************************************************************************)
(* State-machine model of lib/WebSocket.js: one WebSocket session (client  *)
(* or server role), its ready state, the _queue gate of streaming sends,   *)
(* the frames handed to the Sender and the events emitted to the           *)
(* application.                                                            *)
(*                                                                         *)
(* Optional JavaScript values are sequences: <<>> is undefined, <<v>> is   *)
(* the value v.                                                            *)
(*                                                                         *)
(* Every operation of the source is an operator from a session record s to *)
(* the session record after the call, so that calls nest as they do in the *)
(* source (a replayed send inside executeQueueSends inside the push        *)
(* function of a stream).  An action applies one operation, event handler  *)
(* or next-tick callback to the current state.                             *)
(***************************************************************************)
EXTENDS Integers, Sequences, FiniteSets, TLC

\* ---------------------------------------------------------------- bounds
MaxSends  == 3   \* send()/stream() calls made by the application
MaxChunks == 1   \* 'data' chunks a file source produces before 'end'
MaxPushes == 2   \* push calls after which a stream() callback passes final
MaxCtl    == 1   \* ping()/pong()/close()/terminate() calls
MaxRecv   == 1   \* events delivered by the Receiver and the Sender
MaxOps    == 4   \* calls and Receiver/Sender events altogether

\* ------------------------------------------------------------- constants
CONNECTING == 0
OPEN       == 1
CLOSING    == 2
CLOSED     == 3
NormalClosure == 1000

Codes    == {1002}
Reasons  == {"bye"}
Payloads == {"p"}
Opt(S)   == {<<>>} \cup {<<v>> : v \in S}
\* close() and close(code, reason)
CloseArgs == {<< <<>>, <<>> >>} \cup {<< <<c>>, <<r>> >> : c \in Codes, r \in Reasons}

NotOpened  == "not opened"
NoCallback == "callback must be provided"
WriteError == "write failed"

VARIABLES
  isServer,      \* _isServer
  appMask,       \* the mask member of the options the application passes
  readyState,    \* _readyState
  socket,        \* _socket # null
  queue,         \* _queue: [present, by (the call that installed it), items]
  closeCode,     \* _closeCode
  closeMessage,  \* _closeMessage
  hs,            \* handshake: "pending", "upgraded", "failed", "refused"
  sockEnded,     \* socket.end() has been called
  endSeen,       \* the transport delivered 'end'
  closeSeen,     \* the transport delivered 'close'
  readers,       \* file sources sendStream listens to, by send id
  ticks,         \* process.nextTick callbacks not yet run, in order
  frames,        \* frames handed to the Sender, in order
  events,        \* events emitted to the application, in order
  cbs,           \* callbacks invoked by the last step, in order
  thrown,        \* exception that left the last operation ("" if none)
  nextId,        \* send()/stream() calls made so far
  nctl,          \* control calls made so far
  nrecv,         \* Receiver/Sender events delivered so far
  terminated,    \* terminate() has been called by the application
  cancelled,     \* calls deferred and in flight when terminate() was called
  dropped        \* calls whose deferred action an 'error' event discarded

vars == <<isServer, appMask, readyState, socket, queue, closeCode, closeMessage, hs,
          sockEnded, endSeen, closeSeen, readers, ticks, frames, events, cbs,
          thrown, nextId, nctl, nrecv, terminated, cancelled, dropped>>

\* ------------------------------------------------------- session record
\* pending is the part of the local 'queue' of executeQueueSends that its
\* loop has not reached.
Cur ==
  [readyState |-> readyState, socket |-> socket, queue |-> queue,
   closeCode |-> closeCode, closeMessage |-> closeMessage, hs |-> hs,
   sockEnded |-> sockEnded, readers |-> readers, ticks |-> ticks,
   frames |-> frames, events |-> events, cbs |-> <<>>, thrown |-> "",
   dropped |-> dropped, pending |-> <<>>]

Apply(s) ==
  /\ readyState' = s.readyState
  /\ socket' = s.socket
  /\ queue' = s.queue
  /\ closeCode' = s.closeCode
  /\ closeMessage' = s.closeMessage
  /\ hs' = s.hs
  /\ sockEnded' = s.sockEnded
  /\ readers' = s.readers
  /\ ticks' = s.ticks
  /\ frames' = s.frames
  /\ events' = s.events
  /\ cbs' = s.cbs
  /\ thrown' = s.thrown
  /\ dropped' = s.dropped
  /\ isServer' = isServer
  /\ appMask' = appMask

NoQueue == [present |-> FALSE, by |-> 0, items |-> <<>>]

NoReader == [state |-> "none", chunks |-> 0, mask |-> FALSE, cb |-> FALSE, calls |-> 0]

Frame(op, id, fin, mask, code, text, bin) ==
  [op |-> op, id |-> id, fin |-> fin, mask |-> mask, code |-> code,
   text |-> text, bin |-> bin]

Event(type, code, text, bin) ==
  [type |-> type, code |-> code, text |-> text, bin |-> bin]

Tick(t, id, mask, n) == [t |-> t, id |-> id, mask |-> mask, n |-> n]

Ids(q) == {q[i].id : i \in DOMAIN q}

\* code || d and text || d of JavaScript: undefined, 0 and '' are falsy
CodeOr(v, d) == IF v = <<>> THEN d ELSE IF v[1] = 0 THEN d ELSE v[1]

TextOr(v, d) == IF v = <<>> THEN d ELSE IF v[1] = "" THEN d ELSE v[1]

\* MaskOf without the per-call option: the role alone decides
MaskOfRole(opt) == ~isServer

\* typeof options.mask == 'undefined' ? !this._isServer : options.mask
MaskOf(opt) == IF opt = <<>> THEN ~isServer ELSE opt[1]

\* ------------------------------------------------------------ operations
throw(s, e) == [s EXCEPT !.thrown = e]

callback(s, id, err) == [s EXCEPT !.cbs = Append(@, [id |-> id, err |-> err])]

nextTick(s, t) == [s EXCEPT !.ticks = Append(@, t)]

\* this.emit: 'error' deletes _queue before the listeners run
emit(s, ev) ==
  LET s1 == IF ev.type = "error"
            THEN [s EXCEPT !.queue = NoQueue,
                           !.dropped = @ \cup Ids(s.queue.items) \cup Ids(s.pending)]
            ELSE s
  IN [s1 EXCEPT !.events = Append(@, ev)]

\* The Sender: takes the frame and writes it to the socket.  A write after
\* socket.end() fails; a failed write goes to the callback when one was
\* passed and to the Sender's 'error' event, which the session re-emits,
\* otherwise.
SenderWrite(s, f, id, cb) ==
  LET s1 == [s EXCEPT !.frames = Append(@, f)]
  IN IF ~s.sockEnded THEN s1
     ELSE IF cb THEN callback(s1, id, WriteError)
     ELSE emit(s1, Event("error", <<>>, <<WriteError>>, FALSE))

terminate(s) ==
  IF s.socket THEN [s EXCEPT !.sockEnded = TRUE, !.socket = FALSE]
  ELSE IF s.readyState = CONNECTING THEN [s EXCEPT !.readyState = CLOSED]
  ELSE s

\* close without lines 209-210: code and reason are not recorded
closeUnrecorded(s, code, data) ==
  IF s.readyState = CLOSING THEN s
  ELSE IF s.readyState = CONNECTING THEN [s EXCEPT !.readyState = CLOSED]
  ELSE IF s.readyState # OPEN THEN throw(s, NotOpened)
  ELSE LET s1 == [s EXCEPT !.readyState = CLOSING]
           s2 == SenderWrite(s1, Frame("close", 0, TRUE, ~isServer, code, data, FALSE),
                             0, FALSE)
       IN terminate(s2)

close(s, code, data) ==
  IF s.readyState = CLOSING THEN s
  ELSE IF s.readyState = CONNECTING THEN [s EXCEPT !.readyState = CLOSED]
  ELSE IF s.readyState # OPEN THEN throw(s, NotOpened)
  ELSE LET s1 == [s EXCEPT !.readyState = CLOSING, !.closeCode = code,
                           !.closeMessage = data]
           s2 == SenderWrite(s1, Frame("close", 0, TRUE, ~isServer, code, data, FALSE),
                             0, FALSE)
       IN terminate(s2)

ping(s, data, mask, bin) ==
  IF s.readyState # OPEN THEN throw(s, NotOpened)
  ELSE SenderWrite(s, Frame("ping", 0, TRUE, MaskOf(mask), <<>>, <<data>>, bin),
                   0, FALSE)

\* pong without line 244: ready state is not looked at
pongUnchecked(s, data, mask, bin) ==
  SenderWrite(s, Frame("pong", 0, TRUE, MaskOf(mask), <<>>, <<data>>, bin), 0, FALSE)

pong(s, data, mask, bin) ==
  IF s.readyState # OPEN THEN throw(s, NotOpened)
  ELSE SenderWrite(s, Frame("pong", 0, TRUE, MaskOf(mask), <<>>, <<data>>, bin),
                   0, FALSE)

\* instance._queue = instance._queue || [], on behalf of call id
startQueue(s, id) ==
  IF s.queue.present THEN s
  ELSE [s EXCEPT !.queue = [present |-> TRUE, by |-> id, items |-> <<>>]]

\* this._queue.push(function() { self.send(...) }) and the same for stream
defer(s, c) == [s EXCEPT !.queue.items = Append(@, c)]

\* sendStream registers the 'data' and 'end' listeners of the source
sendStream(s, c, mask) ==
  [s EXCEPT !.readers[c.id] = [state |-> "open", chunks |-> 0, mask |-> mask,
                               cb |-> c.cb, calls |-> 0]]

\* send without line 265: 'not opened' is thrown whether or not a callback
\* was passed
sendThrowing(s, c) ==
  IF s.readyState # OPEN THEN throw(s, NotOpened)
  ELSE IF s.queue.present THEN defer(s, c)
  ELSE IF c.file THEN sendStream(startQueue(s, c.id), c, MaskOf(c.mask))
  ELSE SenderWrite(s, Frame("send", c.id, TRUE, MaskOf(c.mask), <<>>, <<>>, FALSE),
                   c.id, c.cb)

send(s, c) ==
  IF s.readyState # OPEN
  THEN IF c.cb THEN callback(s, c.id, NotOpened) ELSE throw(s, NotOpened)
  ELSE IF s.queue.present THEN defer(s, c)
  ELSE IF c.file THEN sendStream(startQueue(s, c.id), c, MaskOf(c.mask))
  ELSE SenderWrite(s, Frame("send", c.id, TRUE, MaskOf(c.mask), <<>>, <<>>, FALSE),
                   c.id, c.cb)

stream(s, c) ==
  IF ~c.cb THEN throw(s, NoCallback)
  ELSE IF s.readyState # OPEN THEN callback(s, c.id, NotOpened)
  ELSE IF s.queue.present THEN defer(s, c)
  ELSE nextTick(startQueue(s, c.id), Tick("cb", c.id, MaskOf(c.mask), 0))

\* queue[i]()
Deferred(s, c) == IF c.fn = "send" THEN send(s, c) ELSE stream(s, c)

RECURSIVE Replay(_, _)
\* for (var i = 0, l = queue.length; i < l; ++i) queue[i]();
Replay(s, q) ==
  IF q = <<>> \/ s.thrown # "" THEN [s EXCEPT !.pending = <<>>]
  ELSE Replay(Deferred([s EXCEPT !.pending = Tail(q)], Head(q)), Tail(q))

executeQueueSends(s) ==
  IF ~s.queue.present THEN s
  ELSE Replay([s EXCEPT !.queue = NoQueue], s.queue.items)

\* 'function send(data, final)' of stream(), called by the user's callback;
\* an exception of the replay is caught and passed to the callback
push(s, t, final) ==
  IF s.readyState # OPEN THEN callback(s, t.id, NotOpened)
  ELSE LET s1 == SenderWrite(s, Frame("send", t.id, final, t.mask, <<>>, <<>>, FALSE),
                             t.id, FALSE)
           s2 == executeQueueSends(s1)
       IN IF ~final THEN nextTick(s1, Tick("cb", t.id, t.mask, t.n + 1))
          ELSE IF s2.thrown # "" THEN callback([s2 EXCEPT !.thrown = ""], t.id, s2.thrown)
          ELSE s2

\* cb(null, send): the user's callback runs and pushes one chunk
streamCallback(s, t, final) == push(callback(s, t.id, ""), t, final)

\* the completion wrapper send() passes to sendStream
streamDone(s, id, err) ==
  LET s1 == nextTick([s EXCEPT !.readers[id].calls = @ + 1],
                     Tick("executeQueueSends", id, FALSE, 0))
  IN IF s.readers[id].cb THEN callback(s1, id, err) ELSE s1

\* stream.on('data', ...)
onSourceData(s, id) ==
  LET s0 == [s EXCEPT !.readers[id].chunks = @ + 1]
  IN IF s.readyState # OPEN THEN streamDone(s0, id, NotOpened)
     ELSE SenderWrite(s0, Frame("send", id, FALSE, s.readers[id].mask, <<>>, <<>>, FALSE),
                      id, FALSE)

\* stream.on('end', ...)
onSourceEnd(s, id) ==
  LET s0 == [s EXCEPT !.readers[id].state = "ended", !.readers[id].chunks = 0]
  IN IF s.readyState # OPEN THEN streamDone(s0, id, NotOpened)
     ELSE streamDone(
            SenderWrite(s0, Frame("send", id, TRUE, s.readers[id].mask, <<>>, <<>>, FALSE),
                        id, FALSE),
            id, "")

upgrade(s) ==
  emit([s EXCEPT !.socket = TRUE, !.hs = "upgraded", !.readyState = OPEN],
       Event("open", <<>>, <<>>, FALSE))

\* socket.on('end', ...)
onSocketEnd(s) ==
  IF s.readyState = CLOSED THEN s
  ELSE emit([s EXCEPT !.readyState = CLOSED],
            Event("close", <<CodeOr(s.closeCode, NormalClosure)>>,
                  <<TextOr(s.closeMessage, "")>>, FALSE))

\* the 'close' handler without line 418: no test for Closed
onSocketCloseUnguarded(s) ==
  emit([s EXCEPT !.readyState = CLOSED],
       Event("close", <<CodeOr(s.closeCode, NormalClosure)>>,
             <<TextOr(s.closeMessage, "")>>, FALSE))

\* socket.on('close', ...)
onSocketClose(s) ==
  IF s.readyState = CLOSED THEN s
  ELSE emit([s EXCEPT !.readyState = CLOSED],
            Event("close", <<CodeOr(s.closeCode, NormalClosure)>>,
                  <<TextOr(s.closeMessage, "")>>, FALSE))

\* the client's 'upgrade' handler
onClientUpgrade(s, keyOk) ==
  IF s.readyState = CLOSED
  THEN [emit(s, Event("close", <<>>, <<>>, FALSE))
          EXCEPT !.sockEnded = TRUE, !.hs = "refused"]
  ELSE IF ~keyOk
  THEN [emit(s, Event("error", <<>>, <<"invalid server key">>, FALSE))
          EXCEPT !.sockEnded = TRUE, !.hs = "failed"]
  ELSE upgrade(s)

\* the client's 'error' handler
onRequestError(s) ==
  [emit(s, Event("error", <<>>, <<"request error">>, FALSE)) EXCEPT !.hs = "failed"]

\* receiver.on('ping', ...): an exception of pong() leaves the handler
onReceiverPing(s, data, bin) ==
  LET s1 == pong(s, data, <<~isServer>>, bin)
  IN IF s1.thrown # "" THEN s1 ELSE emit(s1, Event("ping", <<>>, <<data>>, bin))

onReceiverClose(s, code, data) == close(s, code, data)

\* the 'error' handler without lines 447-449: close() is not called
onReceiverErrorNoClose(s, errorCode) ==
  emit(s, Event("error", errorCode, <<"bad frame">>, FALSE))

onReceiverError(s, errorCode) ==
  LET s1 == IF errorCode # <<>> THEN close(s, errorCode, <<"">>) ELSE s
  IN IF s1.thrown # "" THEN s1
     ELSE emit(s1, Event("error", errorCode, <<"bad frame">>, FALSE))

\* this._sender.on('error', ...)
onSenderError(s) == emit(s, Event("error", <<>>, <<WriteError>>, FALSE))

\* ------------------------------------------------------------------ Init
\* options.mask is left undefined or set against the default of the role
\* (setting it to the default gives the frames of leaving it undefined)
MaskOptions == {<<>>, <<isServer>>}

Init ==
  /\ isServer \in BOOLEAN
  /\ appMask \in MaskOptions
  /\ readyState = CONNECTING
  /\ socket = FALSE
  /\ queue = NoQueue
  /\ closeCode = <<>>
  /\ closeMessage = <<>>
  /\ hs = "pending"
  /\ sockEnded = FALSE
  /\ endSeen = FALSE
  /\ closeSeen = FALSE
  /\ readers = [i \in 1..MaxSends |-> NoReader]
  /\ ticks = IF isServer THEN <<Tick("upgrade", 0, FALSE, 0)>> ELSE <<>>
  /\ frames = <<>>
  /\ events = <<>>
  /\ cbs = <<>>
  /\ thrown = ""
  /\ nextId = 0
  /\ nctl = 0
  /\ nrecv = 0
  /\ terminated = FALSE
  /\ cancelled = [deferred |-> {}, inflight |-> {}]
  /\ dropped = {}

\* --------------------------------------------------------------- actions
Upgraded == hs = "upgraded"

Budget == nextId + nctl + nrecv < MaxOps

\* an I/O event is dispatched only after the process.nextTick callbacks ran
Idle == ticks = <<>>

\* the Receiver is fed by the socket's 'data' events
Receiving == Upgraded /\ ~endSeen /\ ~closeSeen /\ nrecv < MaxRecv /\ Budget

SendCall(file, cb) ==
  /\ nextId < MaxSends /\ Budget
  /\ nextId' = nextId + 1
  /\ Apply(send(Cur, [fn |-> "send", id |-> nextId + 1, file |-> file,
                      mask |-> appMask, cb |-> cb]))
  /\ UNCHANGED <<endSeen, closeSeen, nctl, nrecv, terminated, cancelled>>

Send == \E file \in BOOLEAN, cb \in BOOLEAN: SendCall(file, cb)

StreamCall(cb) ==
  /\ nextId < MaxSends /\ Budget
  /\ nextId' = nextId + 1
  /\ Apply(stream(Cur, [fn |-> "stream", id |-> nextId + 1, file |-> FALSE,
                        mask |-> appMask, cb |-> cb]))
  /\ UNCHANGED <<endSeen, closeSeen, nctl, nrecv, terminated, cancelled>>

Stream == \E cb \in BOOLEAN: StreamCall(cb)

PingCall(data) ==
  /\ nctl < MaxCtl /\ Budget
  /\ nctl' = nctl + 1
  /\ Apply(ping(Cur, data, appMask, FALSE))
  /\ UNCHANGED <<endSeen, closeSeen, nextId, nrecv, terminated, cancelled>>

Ping == \E data \in Payloads: PingCall(data)

PongCall(data) ==
  /\ nctl < MaxCtl /\ Budget
  /\ nctl' = nctl + 1
  /\ Apply(pong(Cur, data, appMask, FALSE))
  /\ UNCHANGED <<endSeen, closeSeen, nextId, nrecv, terminated, cancelled>>

Pong == \E data \in Payloads: PongCall(data)

CloseCall(code, data) ==
  /\ nctl < MaxCtl /\ Budget
  /\ nctl' = nctl + 1
  /\ Apply(close(Cur, code, data))
  /\ UNCHANGED <<endSeen, closeSeen, nextId, nrecv, terminated, cancelled>>

Close == \E a \in CloseArgs: CloseCall(a[1], a[2])

Terminate ==
  /\ nctl < MaxCtl /\ Budget
  /\ nctl' = nctl + 1
  /\ Apply(terminate(Cur))
  /\ terminated' = TRUE
  /\ cancelled' = [deferred |-> Ids(queue.items),
                   inflight |-> IF queue.present THEN {queue.by} ELSE {}]
  /\ UNCHANGED <<endSeen, closeSeen, nextId, nrecv>>

\* process.nextTick(function() { upgrade.apply(self, address); })
ServerUpgrade ==
  /\ ticks # <<>> /\ Head(ticks).t = "upgrade"
  /\ Apply(upgrade([Cur EXCEPT !.ticks = Tail(@)]))
  /\ UNCHANGED <<endSeen, closeSeen, nextId, nctl, nrecv, terminated, cancelled>>

\* process.nextTick(function() { executeQueueSends(self); })
QueueRelease ==
  /\ ticks # <<>> /\ Head(ticks).t = "executeQueueSends"
  /\ Apply(executeQueueSends([Cur EXCEPT !.ticks = Tail(@)]))
  /\ UNCHANGED <<endSeen, closeSeen, nextId, nctl, nrecv, terminated, cancelled>>

\* process.nextTick(cb.bind(null, null, send))
StreamCallback ==
  \E final \in BOOLEAN:
    /\ ticks # <<>> /\ Head(ticks).t = "cb"
    /\ Head(ticks).n + 1 >= MaxPushes => final
    /\ Apply(streamCallback([Cur EXCEPT !.ticks = Tail(@)], Head(ticks), final))
    /\ UNCHANGED <<endSeen, closeSeen, nextId, nctl, nrecv, terminated, cancelled>>

SourceData ==
  \E id \in 1..MaxSends:
    /\ Idle
    /\ readers[id].state = "open" /\ readers[id].chunks < MaxChunks
    /\ Apply(onSourceData(Cur, id))
    /\ UNCHANGED <<endSeen, closeSeen, nextId, nctl, nrecv, terminated, cancelled>>

SourceEnd ==
  \E id \in 1..MaxSends:
    /\ Idle
    /\ readers[id].state = "open"
    /\ Apply(onSourceEnd(Cur, id))
    /\ UNCHANGED <<endSeen, closeSeen, nextId, nctl, nrecv, terminated, cancelled>>

SocketEnd ==
  /\ Idle /\ Upgraded /\ ~endSeen /\ ~closeSeen
  /\ endSeen' = TRUE
  /\ Apply(onSocketEnd(Cur))
  /\ UNCHANGED <<closeSeen, nextId, nctl, nrecv, terminated, cancelled>>

SocketClose ==
  /\ Idle /\ Upgraded /\ ~closeSeen
  /\ closeSeen' = TRUE
  /\ Apply(onSocketClose(Cur))
  /\ UNCHANGED <<endSeen, nextId, nctl, nrecv, terminated, cancelled>>

ClientUpgrade ==
  \E keyOk \in BOOLEAN:
    /\ Idle /\ ~isServer /\ hs = "pending"
    /\ Apply(onClientUpgrade(Cur, keyOk))
    /\ UNCHANGED <<endSeen, closeSeen, nextId, nctl, nrecv, terminated, cancelled>>

RequestError ==
  /\ Idle /\ ~isServer /\ hs = "pending"
  /\ Apply(onRequestError(Cur))
  /\ UNCHANGED <<endSeen, closeSeen, nextId, nctl, nrecv, terminated, cancelled>>

ReceiverPingCall(data, bin) ==
  /\ Receiving
  /\ nrecv' = nrecv + 1
  /\ Apply(onReceiverPing(Cur, data, bin))
  /\ UNCHANGED <<endSeen, closeSeen, nextId, nctl, terminated, cancelled>>

ReceiverPing == \E data \in Payloads, bin \in BOOLEAN: ReceiverPingCall(data, bin)

ReceiverCloseCall(code, data) ==
  /\ Receiving
  /\ nrecv' = nrecv + 1
  /\ Apply(onReceiverClose(Cur, code, data))
  /\ UNCHANGED <<endSeen, closeSeen, nextId, nctl, terminated, cancelled>>

ReceiverClose == \E a \in CloseArgs: ReceiverCloseCall(a[1], a[2])

ReceiverErrorCall(errorCode) ==
  /\ Receiving
  /\ nrecv' = nrecv + 1
  /\ Apply(onReceiverError(Cur, errorCode))
  /\ UNCHANGED <<endSeen, closeSeen, nextId, nctl, terminated, cancelled>>

ReceiverError == \E errorCode \in Opt(Codes): ReceiverErrorCall(errorCode)

SenderError ==
  /\ Idle /\ Upgraded /\ nrecv < MaxRecv /\ Budget
  /\ nrecv' = nrecv + 1
  /\ Apply(onSenderError(Cur))
  /\ UNCHANGED <<endSeen, closeSeen, nextId, nctl, terminated, cancelled>>

Next ==
  \/ Send \/ Stream \/ Ping \/ Pong \/ Close \/ Terminate
  \/ ServerUpgrade \/ QueueRelease \/ StreamCallback
  \/ SourceData \/ SourceEnd
  \/ SocketEnd \/ SocketClose
  \/ ClientUpgrade \/ RequestError
  \/ ReceiverPing \/ ReceiverClose \/ ReceiverError \/ SenderError

Spec == Init /\ [][Next]_vars

\* ---------------------------------------------------------------- claims
NewFrames == (Len(frames) + 1)..Len(frames')

NewEvents == (Len(events) + 1)..Len(events')

Count(log, type) == Cardinality({i \in DOMAIN log : log[i].type = type})

CloseFrames == {i \in DOMAIN frames : frames[i].op = "close"}

\* C1: ready_state only moves forward along Connecting -> Open -> Closing ->
\* Closed (or Connecting -> Closed): no step takes it to an earlier state, and
\* Closed is never left.
C1_ReadyStateForward == [][readyState' >= readyState]_vars

\* C10: once terminate() has been called the session never fires open and
\* never becomes Open, and it is Closed once the transport's end notification
\* has been delivered.
C10_TerminateIsFinal ==
  /\ [](terminated /\ endSeen => readyState = CLOSED)
  /\ [][terminated =>
          /\ readyState' = OPEN => readyState = OPEN
          /\ \A i \in NewEvents : events'[i].type # "open"]_vars

\* C6: the close event is emitted at most once per session.
C6_CloseAtMostOnce == Count(events, "close") <= 1

\* close() or terminate() was called and both transport notifications came
C6_Witness ==
  /\ Count(events, "close") = 1
  /\ endSeen /\ closeSeen
  /\ terminated \/ CloseFrames # {}

C4_MaskByRole == \A i \in DOMAIN frames : frames[i].mask = ~isServer

\* C4: a close frame and the automatic pong carry mask = (role is client);
\* a frame of send, stream, ping and pong carries options.mask when the
\* caller set it and mask = (role is client) when the caller left it out.
C4_MaskRule ==
  [][\A i \in NewFrames :
       frames'[i].mask = IF frames'[i].op = "close" \/ nrecv' # nrecv
                         THEN ~isServer
                         ELSE IF appMask = <<>> THEN ~isServer ELSE appMask[1]]_vars

C4_Witness ==
  /\ appMask # <<>>
  /\ \E i \in DOMAIN frames : frames[i].op = "send" /\ frames[i].mask = appMask[1]
  /\ \E i \in DOMAIN frames : frames[i].op = "ping" /\ frames[i].mask = appMask[1]
  /\ \E i \in DOMAIN frames : frames[i].op = "close" /\ frames[i].mask # appMask[1]

\* the step hands no frame, leaves ready state, queue and events alone, and
\* ends with this exception (thr) and these callback invocations (cbk)
Rejected(thr, cbk) ==
  /\ frames' = frames /\ readyState' = readyState /\ queue' = queue
  /\ events' = events /\ thrown' = thr /\ cbs' = cbk

ToCallback == <<[id |-> nextId + 1, err |-> NotOpened]>>

\* C8 as claimed: send, stream, ping and pong in a state other than Open
\* hand no frame and leave ready state and queue alone; 'not opened' is
\* thrown when no callback was passed and goes to the callback, and to no
\* error event, when one was passed.
C8_NotOpenRejected ==
  [][readyState # OPEN =>
       /\ \A file \in BOOLEAN, cb \in BOOLEAN :
            SendCall(file, cb) =>
              Rejected(IF cb THEN "" ELSE NotOpened, IF cb THEN ToCallback ELSE <<>>)
       /\ \A cb \in BOOLEAN :
            StreamCall(cb) =>
              Rejected(IF cb THEN "" ELSE NotOpened, IF cb THEN ToCallback ELSE <<>>)
       /\ \A data \in Payloads :
            (PingCall(data) \/ PongCall(data)) => Rejected(NotOpened, <<>>)]_vars

\* C8: the same, except that stream() called without a callback throws
\* 'callback must be provided' instead of 'not opened'.
C8_NotOpenRejectedOrNoCallback ==
  [][readyState # OPEN =>
       /\ \A file \in BOOLEAN, cb \in BOOLEAN :
            SendCall(file, cb) =>
              Rejected(IF cb THEN "" ELSE NotOpened, IF cb THEN ToCallback ELSE <<>>)
       /\ \A cb \in BOOLEAN :
            StreamCall(cb) =>
              Rejected(IF cb THEN "" ELSE NoCallback, IF cb THEN ToCallback ELSE <<>>)
       /\ \A data \in Payloads :
            (PingCall(data) \/ PongCall(data)) => Rejected(NotOpened, <<>>)]_vars

\* a send or stream call with a callback was rejected in state Closing
C8_Witness ==
  /\ readyState = CLOSING
  /\ nextId = 1 /\ readers[1].state = "none" /\ ticks = <<>>
  /\ cbs = <<[id |-> 1, err |-> NotOpened]>> /\ thrown = ""

\* C7: for every ping(p) of the Receiver the session hands pong(p), with the
\* same payload and binary flag, to the Sender and then emits ping(p).
C7_AutoPong ==
  [][\A data \in Payloads, bin \in BOOLEAN :
       ReceiverPingCall(data, bin) =>
         /\ frames' = Append(frames, Frame("pong", 0, TRUE, ~isServer, <<>>, <<data>>, bin))
         /\ events' # <<>>
         /\ events'[Len(events')] = Event("ping", <<>>, <<data>>, bin)]_vars

\* C3: while the queue is present a ping() or pong(), the automatic pong
\* included, hands no frame to the Sender and is appended to the queue.
C3_PingDeferred ==
  [][(queue.present /\ readyState = OPEN) =>
       /\ \A i \in NewFrames : frames'[i].op \notin {"ping", "pong"}
       /\ \A data \in Payloads, bin \in BOOLEAN :
            (PingCall(data) \/ PongCall(data) \/ ReceiverPingCall(data, bin)) =>
              /\ frames' = frames
              /\ queue'.present /\ Len(queue'.items) = Len(queue.items) + 1]_vars

\* C2: a frame of a call that waits in the queue is handed to the Sender only
\* after the terminal fin = true frame of the call that installed the queue.
C2_InstallerFirst ==
  [][\A j \in NewFrames :
       frames'[j].id \in Ids(queue.items) =>
         \E i \in 1..(j - 1) :
           frames'[i].op = "send" /\ frames'[i].id = queue.by /\ frames'[i].fin]_vars

\* C5: no frame of a call whose deferred action an error event discarded is
\* handed to the Sender.
C5_DroppedNeverRun == \A i \in DOMAIN frames : frames[i].id \notin dropped

\* C11: after terminate() no frame of a call that was deferred in the queue
\* when terminate() was called is handed to the Sender, and no callback of
\* such a call, nor of the streaming send then in flight, is invoked.
C11_TerminateCancels ==
  [][terminated =>
       /\ \A i \in NewFrames : frames'[i].id \notin cancelled.deferred
       /\ \A i \in DOMAIN cbs' :
            cbs'[i].id \notin cancelled.deferred \cup cancelled.inflight]_vars

\* C12: once the client's handshake has failed (bad or missing
\* Sec-WebSocket-Accept, or an error of the request) an error event was
\* emitted, the transport was ended when the upgrade response had come, open
\* has not fired and ready state is Closed.
C12_HandshakeFailureCloses ==
  hs = "failed" =>
    /\ \E i \in DOMAIN events : events[i].type = "error"
    /\ (\E i \in DOMAIN events : events[i].text = <<"invalid server key">>) => sockEnded
    /\ \A i \in DOMAIN events : events[i].type # "open"
    /\ readyState = CLOSED

\* C13: when the client called close() while Connecting and the upgrade
\* response came afterwards, close was emitted with code 1000 and an empty
\* reason, the transport was ended, no frame was handed to the Sender, no
\* error and no open event was emitted and ready state is Closed.
C13_EarlyCloseEvent ==
  (hs = "refused" /\ ~terminated) =>
    /\ \E i \in DOMAIN events : events[i] = Event("close", <<NormalClosure>>, <<"">>, FALSE)
    /\ sockEnded
    /\ frames = <<>>
    /\ \A i \in DOMAIN events : events[i].type \notin {"error", "open"}
    /\ readyState = CLOSED

\* C15: the session holds a transport handle exactly when ready state is
\* Open or Closing.
C15_HandleIffOpenOrClosing == socket <=> readyState \in {OPEN, CLOSING}

\* C14: every error(reason, code) of the Receiver is surfaced to the
\* application as the last event of the step; with a code, close(code, '')
\* is called first, so that from Open the close frame with that code and an
\* empty reason is handed to the Sender, ready state becomes Closing and the
\* transport is ended; without a code no frame is handed and ready state
\* stays.  Ready state is Closed once the transport's end or close
\* notification has been delivered.
C14_ReceiverError ==
  /\ []((endSeen \/ closeSeen) => readyState = CLOSED)
  /\ [][\A c \in Opt(Codes) :
          ReceiverErrorCall(c) =>
            /\ thrown' = ""
            /\ Len(events') > Len(events)
            /\ events'[Len(events')] = Event("error", c, <<"bad frame">>, FALSE)
            /\ (c # <<>> /\ readyState = OPEN) =>
                 /\ frames' = Append(frames, Frame("close", 0, TRUE, ~isServer, c, <<"">>, FALSE))
                 /\ readyState' = CLOSING
                 /\ ~socket' /\ sockEnded'
            /\ (c = <<>> \/ readyState # OPEN) =>
                 frames' = frames /\ readyState' = readyState]_vars

\* error('bad frame', 1002) came in state Open and the transport then ended
C14_Witness ==
  /\ \E i \in DOMAIN events : events[i] = Event("error", <<1002>>, <<"bad frame">>, FALSE)
  /\ \E j \in CloseFrames : frames[j].code = <<1002>> /\ frames[j].text = <<"">>
  /\ endSeen /\ readyState = CLOSED

\* the calls of the queue, replayed by a step that handed k frames of its own:
\* in state Open the plain sends at the head hand their frames in order, the
\* first streaming send installs the new queue and the calls behind it are
\* deferred again in order; in another state every call is rejected in order
ReplayedInOrder(k) ==
  LET q  == queue.items
      nf == Len(frames') - Len(frames) - k
      nc == Len(cbs') - k
  IN IF readyState = OPEN
     THEN /\ nf \in 0..Len(q)
          /\ \A i \in 1..nf :
               /\ frames'[Len(frames) + k + i].id = q[i].id
               /\ frames'[Len(frames) + k + i].fin
               /\ q[i].fn = "send" /\ ~q[i].file
          /\ IF nf = Len(q) THEN ~queue'.present
             ELSE /\ queue'.present
                  /\ queue'.by = q[nf + 1].id
                  /\ queue'.items = SubSeq(q, nf + 2, Len(q))
     ELSE /\ nf = 0
          /\ nc + (IF thrown' # "" THEN 1 ELSE 0) = Len(q)
          /\ \A i \in 1..nc : cbs'[k + i] = [id |-> q[i].id, err |-> NotOpened]

\* C16: a step that releases the queue executes every call deferred in it
\* once and in the order of deferral; when a replayed call is a streaming
\* send it installs the new queue and the calls behind it are deferred again
\* in their order.  No call is in the queue twice.
C16_ReplayInOrder ==
  /\ [](Cardinality(Ids(queue.items)) = Len(queue.items))
  /\ [][(queue.present /\ QueueRelease) => ReplayedInOrder(0)]_vars
  /\ [][(queue.present /\ ~sockEnded /\ StreamCallback
           /\ Len(frames') > Len(frames) /\ frames'[Len(frames) + 1].fin)
         => ReplayedInOrder(1)]_vars

IsRelease(t) == t.t = "executeQueueSends"

\* C17: when ready state is not Open at a chunk boundary of a streaming send
\* (a 'data' or 'end' of the file source, a push of a stream() callback) no
\* frame is handed to the Sender, no event is emitted, nothing is thrown, the
\* call's callback gets 'not opened', the queue stays as it is and no release
\* of the queue is scheduled.
C17_NotOpenChunk ==
  [][(readyState # OPEN /\ (SourceData \/ SourceEnd \/ StreamCallback)) =>
       /\ frames' = frames /\ events' = events /\ thrown' = ""
       /\ \A i \in DOMAIN cbs' : cbs'[i].err \in {"", NotOpened}
       /\ StreamCallback => cbs'[Len(cbs')].err = NotOpened
       /\ queue' = queue
       /\ Len(SelectSeq(ticks', IsRelease)) <= Len(SelectSeq(ticks, IsRelease))]_vars

\* C18: between a fin = false data frame of a call and the terminal
\* fin = true frame of that call the Sender is handed no data frame of
\* another send or stream call.
C18_SingleWriter ==
  \A i \in DOMAIN frames, j \in DOMAIN frames :
    (/\ i < j
     /\ frames[i].op = "send" /\ ~frames[i].fin
     /\ frames[j].op = "send" /\ frames[j].id # frames[i].id)
    => \E k \in (i + 1)..(j - 1) :
         frames[k].op = "send" /\ frames[k].id = frames[i].id /\ frames[k].fin

\* C19: a close frame is the last frame handed to the Sender.
C19_CloseFrameLast == \A i \in CloseFrames : i = Len(frames)

\* after data frames and the close frame an operation was tried and rejected
C19_Witness ==
  /\ CloseFrames # {} /\ Len(frames) >= 2
  /\ readyState = CLOSING
  /\ thrown = NotOpened

\* C20: the completion wrapper send() passes to sendStream is called, and so
\* schedules the release of the queue, at most once for each send call.
C20_CompletionOnce == \A id \in DOMAIN readers : readers[id].calls <= 1

====
